---- MODULE Spec2Model ----
(***************************************************************************)
(* A model of the TideClock library (src/lib/TideClock) as it is driven by *)
(* the Time-and-Tide firmware (src/src/main.cpp): the motor-stepping state *)
(* machine run(), the calibration entry point test(), begin() and step().  *)
(*                                                                         *)
(* Integers of the program keep their width.  TLC's integers are 32-bit    *)
(* signed, so a uint32_t is held as two 16-bit limbs <<hi, lo>> and an     *)
(* int32_t as an ordinary integer in -2^31 .. 2^31-1.  A float is held as  *)
(* [m, e], the value m * 2^e with a significand m <= 2^24.                 *)
(***************************************************************************)
EXTENDS Integers, Naturals, Sequences, FiniteSets, TLC

(***************************************************************************)
(* Program constants (TideClock.h, Arduino.h)                              *)
(***************************************************************************)
TC_ONE_MIN_STEP_INTERVAL == 200
TC_ONE_STEPS_PER_TICK == 1
TC_SIXTEEN_MIN_STEP_INTERVAL == 31
TC_SIXTEEN_STEPS_PER_TICK == 16
TC_SECONDS_PER_TICK == 12
TC_SECONDS_IN_SIX_HOURS == 6 * 60 * 60
TC_SECONDS_IN_18_HOURS == 18 * 60 * 60
TC_TICKS_IN_A_CYCLE == 60 * 30
TC_ASK_TIDE_MILLIS == 120000
TC_UNAVAILABLE == 3
HIGH == 1
LOW == 0

tcLinear == "tcLinear"
tcNonlinear == "tcNonlinear"
tcOne == "tcOne"
tcSixteen == "tcSixteen"

INT32_MAX == 2147483647
INT32_MIN == -2147483647 - 1

(***************************************************************************)
(* Bounds of the model                                                     *)
(***************************************************************************)
\* The number of run()/test() invocations explored after begin().
MaxCalls == 4
\* The wall-clock time (POSIX seconds) at which the firmware starts.
StartTime == 1700000000

\* The time that passes between two invocations: <<milliseconds, seconds>>.
\* 10 ms is inside both motors' throttle and 200 ms inside neither; 12 s is
\* one linear tick; 120 s is the query window.
Gaps == { <<10, 0>>, <<200, 0>>, <<12000, 12>>, <<120000, 120>> }

\* How far in the future (seconds) the handler's answer lies, relative to the
\* span of the face: close to the tide, three hours away, two ticks inside
\* the span (24 s on the linear face, 2160 s on the nonlinear one), exactly
\* the span away, and just beyond the span.
AnswerOffsets(span) ==
    { 24, 10800, span - (IF span = 21600 THEN 24 ELSE 2160), span, span + 24 }

\* millis() when setup() reaches tc.begin().
BeginMillis == { 3000 }

(***************************************************************************)
(* 32-bit unsigned arithmetic on limbs                                     *)
(***************************************************************************)
Limb == 2 ^ 16

\* The uint32_t with the bit pattern of the int32_t (or small natural) n.
ToU32(n) == << (n \div Limb) % Limb, n % Limb >>

\* The int32_t with the bit pattern of the uint32_t u.
ToInt32(u) == IF u[1] >= Limb \div 2 THEN (u[1] - Limb) * Limb + u[2]
              ELSE u[1] * Limb + u[2]

U32Add(a, b) ==
    LET lo == a[2] + b[2]
        hi == a[1] + b[1] + (lo \div Limb)
    IN  << hi % Limb, lo % Limb >>

U32Sub(a, b) ==
    LET lo == a[2] - b[2]
        hi == a[1] - b[1] + (lo \div Limb)
    IN  << hi % Limb, lo % Limb >>

\* k * a modulo 2^32, for a small multiplier k (k < 2^15).
U32Mul(k, a) ==
    LET lo == k * a[2]
        hi == k * a[1] + (lo \div Limb)
    IN  << hi % Limb, lo % Limb >>

\* u < n for a uint32_t u and a natural n < 2^31.
U32Less(u, n) == u[1] < Limb \div 2 /\ u[1] * Limb + u[2] < n

(***************************************************************************)
(* Single-precision floats: [m, e] is the value m * 2^e                    *)
(***************************************************************************)
RECURSIVE BitLen(_)
\* The number of bits of the natural n.
BitLen(n) == IF n = 0 THEN 0 ELSE 1 + BitLen(n \div 2)

\* p / d rounded to the nearest integer, ties to even (IEEE 754 default).
RoundNearestEven(p, d) ==
    LET q == p \div d
        r == p % d
    IN  IF 2 * r > d \/ (2 * r = d /\ q % 2 = 1) THEN q + 1 ELSE q

\* static_cast<float>(u) for a uint32_t u: 24 significant bits are kept.
U32ToFloat(u) ==
    IF u[1] < 2 ^ 8
    THEN [m |-> u[1] * Limb + u[2], e |-> 0]
    ELSE LET sh == BitLen(u[1]) - 8
             p  == 2 ^ sh
             m0 == u[1] * (Limb \div p) + (u[2] \div p)
             r  == u[2] % p
         IN  [m |-> IF 2 * r > p \/ (2 * r = p /\ m0 % 2 = 1) THEN m0 + 1 ELSE m0,
              e |-> sh]

RECURSIVE FloatDivTrunc(_, _, _)
\* static_cast<int32_t>(f / d) for the float m * 2^e and a small integer
\* d > 0: the quotient is rounded to 24 significant bits, then truncated.
\* (The result is below 2^32 / d, inside int32_t for d >= 2.)
FloatDivTrunc(m, e, d) ==
    IF e > 0 /\ d % 2 = 0
    THEN FloatDivTrunc(m, e - 1, d \div 2)
    ELSE LET P == m * 2 ^ e
             I == P \div d
             k == BitLen(I) - 24
         IN  IF I = 0 THEN 0
             ELSE IF k >= 0 THEN RoundNearestEven(P, d * 2 ^ k) * 2 ^ k
             ELSE RoundNearestEven(P * 2 ^ (-k), d) \div 2 ^ (-k)

\* s * s in single precision for a float s that is an integer <= 2^16:
\* s^2 = 128 * H + L is rounded to 24 significant bits.
FloatSquare(s) ==
    LET u == s \div 128
        v == s % 128
        H == 128 * u * u + 2 * u * v + ((v * v) \div 128)
        L == (v * v) % 128
        sh == BitLen(H) + 7 - 24
        p == 2 ^ sh
        m0 == IF sh = 8 THEN H \div 2 ELSE H * (128 \div p) + (L \div p)
        r == IF sh = 8 THEN (H % 2) * 128 + L ELSE L % p
    IN  IF sh <= 0
        THEN [m |-> 128 * H + L, e |-> 0]
        ELSE [m |-> IF 2 * r > p \/ (2 * r = p /\ m0 % 2 = 1) THEN m0 + 1 ELSE m0,
              e |-> sh]

RECURSIVE ScaledDiv(_, _, _)
\* floor(m * 2^e / d)
ScaledDiv(m, e, d) ==
    IF e > 0 /\ d % 2 = 0 THEN ScaledDiv(m, e - 1, d \div 2)
    ELSE (m * 2 ^ e) \div d

\* 1 / TC_A_COEFFICIENT = 64800^2 / 1800, an integer.
A_COEFFICIENT_INVERSE ==
    (TC_SECONDS_IN_18_HOURS \div 60) * (TC_SECONDS_IN_18_HOURS \div 30)

(***************************************************************************)
(* The state                                                               *)
(***************************************************************************)
VARIABLES
    begun,          \* whether setup() has called tc.begin()
    faceType,       \* TideClock::faceType
    motorType,      \* TideClock::motorType
    stepType,       \* TideClock::stepType: TRUE when the next pulse is a tick
    paused,         \* TideClock::paused
    stepsTaken,     \* TideClock::stepsTaken (int32_t)
    stepsNeeded,    \* TideClock::stepsNeeded (int32_t)
    nextTide,       \* TideClock::nextTide: [tideType, time]
    gotTideMillis,  \* TideClock::gotTideMillis (unsigned long, 32 bits)
    lastMillis,     \* TideClock::lastMillis (unsigned long, 32 bits)
    millis,         \* the millis() reading of the latest invocation
    now,            \* the wall-clock time (time_t) of the latest invocation
    calls,          \* the number of run()/test() invocations so far
    sincePulse,     \* ms from the latest pulse's invocation to now (-1: no pulse yet)
    sinceAsk,       \* ms from the latest handler call's invocation to now (-1: none)
    lastAnswer,     \* the tideType of the handler's latest answer (-1: never asked)
    pins,           \* the levels of <<tickPin, tockPin>> between invocations
    lastLine,       \* the line of the latest pulse ("none": no pulse yet)
    passed,         \* whether a run()/test() invocation has passed the motor throttle
    sincePassed,    \* ms from begin() or the latest such invocation to now
    wld,            \* the WlDisplay object's members
    stepper,        \* the GStepper's target and current position (steps)
    needsHome,      \* power was recognised as restored and no home() has homed since
    wlCalls,        \* the number of WlDisplay run()/setLevel() invocations so far
    wlObs,          \* what the latest WlDisplay invocation did
    homing,         \* a home() call in progress: where it is and what it read
    dataMidnight,   \* getPredWl()'s static dataMidnight (time_t)
    predWl,         \* the date (its midnight) predWl[] was filled for (0: never)
    predCalls,      \* the number of getPredWl() calls so far
    predObs,        \* what the latest getPredWl() call did
    opMode,         \* main.cpp opMode: "notInit", "run" or "test"
    config,         \* main.cpp config: [clockFace, motor]
    testTick,       \* main.cpp testTick: the ticks the tick command asked for
    testNsecs,      \* main.cpp testNsecs: seconds between two test ticks
    testTicksTaken, \* main.cpp testTicksTaken
    stepsToTick,    \* loop()'s static stepsToTick
    lastTickMillis, \* loop()'s static lastTickMillis (unsigned long, 32 bits)
    mainObs,        \* what setup(), loop() and the command handlers did
    tideObs,        \* the latest getNextTide() call: its inputs and its answer
    obs             \* what the latest invocation did

vars == << begun, faceType, motorType, stepType, paused, stepsTaken, stepsNeeded,
           nextTide, gotTideMillis, lastMillis, millis, now, calls, sincePulse,
           sinceAsk, lastAnswer, pins, lastLine, passed, sincePassed, wld,
           stepper, needsHome, wlCalls, wlObs, homing, dataMidnight, predWl,
           predCalls, predObs, opMode, config, testTick, testNsecs,
           testTicksTaken, stepsToTick, lastTickMillis, mainObs, tideObs, obs >>

clock == << stepType, paused, stepsTaken, stepsNeeded, nextTide, gotTideMillis,
            lastMillis >>

\* The water level display and what is recorded about it.
display == << wld, stepper, needsHome, wlCalls, wlObs >>

\* The water level predictions and what is recorded about them.
predictions == << dataMidnight, predWl, predCalls, predObs >>

\* The globals of main.cpp that setup(), loop() and the command handlers use.
app == << opMode, config, testTick, testNsecs, testTicksTaken, stepsToTick,
         lastTickMillis, mainObs >>

\* The tide clock and what is recorded about it (all but millis).
tideClock == << begun, faceType, motorType, clock, now, calls, sincePulse, sinceAsk,
               lastAnswer, pins, lastLine, passed, sincePassed, obs >>

\* The record of a WlDisplay invocation that did nothing observable.
WlQuiet == [ op |-> "none", level |-> 0, ignored |-> FALSE, cameOn |-> FALSE,
            homeCalls |-> 0, homings |-> 0, ticked |-> FALSE ]

\* The record of main.cpp before setup(): setup tells whether setup() has
\* returned, called which TideClock entry point the latest loop() invoked, and
\* nullCall whether that invocation called through the null handler.
MainQuiet == [ setup |-> FALSE, called |-> "none", nullCall |-> FALSE ]

\* No payload: the HTTPS request failed and getPayload() returned "".
NoPayload == [ kind |-> "empty", list |-> << >> ]

\* Before the first getNextTide() call.
TideQuiet == [ calls |-> 0, nowSecs |-> StartTime, payload |-> NoPayload,
              answer |-> [tideType |-> TC_UNAVAILABLE, time |-> 0] ]

\* No home() call in progress.  distance is the number of steps between the
\* stepper and the limit switch, powered whether the stepper's supply is
\* present, ret the value a finished call returned.
HomeIdle == [ pc |-> "idle", distance |-> 0, powered |-> FALSE, homed |-> FALSE,
              ret |-> FALSE ]

\* The record before the first getPredWl() call.
PredQuiet == [ op |-> "none", ret |-> "none", midnight |-> 0, fetched |-> FALSE,
               ok |-> FALSE ]

\* The record of an invocation that did nothing observable.
Quiet == [ op |-> "none", path |-> "none", pulse |-> FALSE, line |-> "none",
           asked |-> FALSE, answer |-> TC_UNAVAILABLE, firstPass |-> FALSE,
           missedCycle |-> FALSE, prevType |-> TC_UNAVAILABLE, base |-> 0,
           secTo |-> 0, fromEnd |-> [m |-> 0, e |-> 0],
           pulseGap |-> -1, askGap |-> -1,
           levels |-> << >>, prevLine |-> "none", ret |-> FALSE,
           passGap |-> -1 ]

(***************************************************************************)
(* begin(): the motor profile (TideClock.cpp 41-49)                        *)
(***************************************************************************)
stepsPerTick ==
    IF motorType = tcOne THEN TC_ONE_STEPS_PER_TICK ELSE TC_SIXTEEN_STEPS_PER_TICK

minStepInterval ==
    IF motorType = tcOne THEN TC_ONE_MIN_STEP_INTERVAL
    ELSE TC_SIXTEEN_MIN_STEP_INTERVAL

\* The face span, a uint32_t constant.
Span(face) ==
    IF face = tcNonlinear THEN TC_SECONDS_IN_18_HOURS ELSE TC_SECONDS_IN_SIX_HOURS

(***************************************************************************)
(* The tide-event supplier (main.cpp getNextTide): unavailable, or the     *)
(* first prediction strictly later than the current time.                  *)
(***************************************************************************)
HandlerAnswers(t) ==
    { [tideType |-> TC_UNAVAILABLE, time |-> 0] } \cup
    { [tideType |-> k, time |-> t + off] : k \in {HIGH, LOW}, off \in AnswerOffsets(Span(faceType)) }

\* A smaller choice of answers: unavailable, or a tide three hours away.
AppAnswers(t) ==
    { [tideType |-> TC_UNAVAILABLE, time |-> 0] } \cup
    { [tideType |-> k, time |-> t + 10800] : k \in {HIGH, LOW} }

(***************************************************************************)
(* The conditions and computations of run() and test()                     *)
(***************************************************************************)
\* Mutant: run() without its motor throttle.
Throttled_Never(curMillis) == FALSE

\* Mutant: the elapsed time is compared as a signed difference, which is
\* negative once millis() has wrapped.
Throttled_Signed(curMillis) ==
    \/ curMillis[1] < lastMillis[1]
    \/ U32Less(U32Sub(curMillis, lastMillis), minStepInterval)

\* run(): if (curMillis - lastMillis < minStepInterval) return;
Throttled(curMillis) == U32Less(U32Sub(curMillis, lastMillis), minStepInterval)

\* Mutant: test() without its motor throttle.
TestThrottled_Never(curMillis) == FALSE

\* test(): if (curMillis - lastMillis < minStepInterval) return false;
TestThrottled(curMillis) == U32Less(U32Sub(curMillis, lastMillis), minStepInterval)

\* Mutant: a step is taken whatever the step counts.
StepDue_Always == TRUE

\* Mutant: a step is taken when stepsTaken has merely reached stepsNeeded.
StepDue_Eager == stepsNeeded >= stepsTaken

\* run(): if (stepsNeeded > stepsTaken)
StepDue == stepsNeeded > stepsTaken

\* Mutant: the handler is asked whether or not the target has passed.
PastTarget_Always(t) == TRUE

\* run(): if (t > nextTide.time)
PastTarget(t) == t > nextTide.time

\* Mutant: run() without its query throttle.
AskTooSoon_Never(curMillis) == FALSE

\* Mutant: the query throttle waits twice the window.
AskTooSoon_Double(curMillis) ==
    U32Less(U32Sub(curMillis, gotTideMillis), 2 * TC_ASK_TIDE_MILLIS)

\* run(): if (curMillis - gotTideMillis < TC_ASK_TIDE_MILLIS) return;
AskTooSoon(curMillis) == U32Less(U32Sub(curMillis, gotTideMillis), TC_ASK_TIDE_MILLIS)

\* run(): missedCycle = nextTide.tideType == newTide.tideType;
MissedCycle(newTide) == nextTide.tideType = newTide.tideType

\* Mutant: stepsTaken is not reset when a new cycle starts.
StepsTakenOnNewCycle_Keep == stepsTaken

\* run(): stepsTaken = 0; on starting a new tide cycle
StepsTakenOnNewCycle == 0

\* Mutant: the distance is taken to the target held before this invocation.
SecToNextTide_Stale(tide, t) == ToInt32(ToU32(nextTide.time - t))

\* run(): int32_t secToNextTide = static_cast<int32_t>(nextTide.time - t);
SecToNextTide(tide, t) == ToInt32(ToU32(tide.time - t))

\* Mutant: the six-hour span is used on both faces.
SecFromCycleEnd_SixHours(face, secTo) ==
    U32ToFloat(U32Sub(ToU32(TC_SECONDS_IN_SIX_HOURS), ToU32(secTo)))

\* run(): secFromCycleEnd = static_cast<float>(SPAN - secToNextTide);
\* SPAN is a uint32_t, so the subtraction is done in uint32_t.
SecFromCycleEnd(face, secTo) == U32ToFloat(U32Sub(ToU32(Span(face)), ToU32(secTo)))

\* secFromCycleEnd < 0 and secFromCycleEnd == 0 on the float
FloatIsNegative(f) == f.m < 0
FloatIsZero(f) == f.m = 0

\* The outcomes of converting a double beyond the range of int32_t: undefined
\* behaviour; the soft-float conversion saturates, other builds give INT32_MIN.
OutOfRangeCast == { INT32_MAX, INT32_MIN }

\* Mutant: the linear formula is used on both faces.
Ticks_LinearOnly(face, f) == { FloatDivTrunc(f.m, f.e, TC_SECONDS_PER_TICK) }

\* run(): the static_cast<int32_t>(...) of the face formula.
\*   nonlinear: TC_A_COEFFICIENT * (secFromCycleEnd * secFromCycleEnd), the
\*     square in float, the product in double.  The double product of the
\*     coefficient with a float square q lies within 2^-50 of q / 2332800, so
\*     its truncation is floor(q / 2332800).  secToNextTide >= 0 wherever run()
\*     evaluates this, so secFromCycleEnd is either <= 64800 or a wrapped value
\*     above 2^31, whose product (> 10^12) is outside int32_t.
\*   linear: secFromCycleEnd / TC_SECONDS_PER_TICK, in float.
Ticks(face, f) ==
    IF face = tcNonlinear
    THEN IF f.e = 0 /\ f.m <= TC_SECONDS_IN_18_HOURS
         THEN LET q == FloatSquare(f.m)
              IN  { ScaledDiv(q.m, q.e, A_COEFFICIENT_INVERSE) }
         ELSE OutOfRangeCast
    ELSE { FloatDivTrunc(f.m, f.e, TC_SECONDS_PER_TICK) }

\* Mutant: the face formula's value is used without the motor's steps per tick.
StepsFor_Unscaled(ticks) == ticks

\* run(): stepsNeeded = stepsPerTick * ticks; unsigned long times int32_t is
\* computed in 32-bit unsigned arithmetic and stored in an int32_t.
StepsFor(ticks) == ToInt32(U32Mul(stepsPerTick, ToU32(ticks)))

\* run(): stepsNeeded += stepsPerTick * TC_TICKS_IN_A_CYCLE; (unsigned, 32 bits)
Inflate(steps) ==
    ToInt32(U32Add(ToU32(steps), U32Mul(stepsPerTick, ToU32(TC_TICKS_IN_A_CYCLE))))

\* run(): if (secFromCycleEnd < 0 && !missedCycle) paused = true;
ShouldPause(f, missedCycle) == FloatIsNegative(f) /\ ~missedCycle

\* Mutant: the first target is treated like any other.
FirstPassPolicy_Skip(firstPass, needed, taken) == taken

\* run(): in the else branch, if (firstPass) stepsTaken = stepsNeeded;
FirstPassPolicy(firstPass, needed, taken) == IF firstPass THEN needed ELSE taken

\* Mutant: the pulse of a step is not counted.
Stepped_Uncounted(taken) == taken

\* run(): stepsTaken++ after step(), on an int32_t.  run() steps only while
\* stepsNeeded > stepsTaken, so the count is below INT32_MAX when incremented;
\* the wrap is that of the two's complement hardware.
Stepped(taken) == IF taken = INT32_MAX THEN INT32_MIN ELSE taken + 1

\* Mutant: step() always pulses the tick line.
StepLine_Stuck == "tick"

\* step(): the line pulsed, by stepType
StepLine == IF stepType THEN "tick" ELSE "tock"

\* step(): the levels of <<tickPin, tockPin>> after each digitalWrite of the
\* pulse: one line is driven HIGH, held for pulseDuration, and returned LOW.
StepLevels ==
    IF stepType THEN << << HIGH, LOW >>, << LOW, LOW >> >>
    ELSE << << LOW, HIGH >>, << LOW, LOW >> >>

\* elapsed-time bookkeeping, saturating at cap
Elapsed(since, ms, cap) ==
    IF since < 0 THEN -1 ELSE IF since >= cap - ms THEN cap ELSE since + ms

(***************************************************************************)
(* WlDisplay: levels are floats in the code and hundredths of a foot here  *)
(***************************************************************************)
WLD_MIN_POS == -1200
WLD_ENOUGH_MILLIS == 100

\* One foot, in the unit of the levels.
LevelUnit == 100

\* config.minLevel and config.maxLevel: the defaults, -4.3 and 12.1 feet.
TAT_STATION_MIN_LEVEL == -430
TAT_STATION_MAX_LEVEL == 1210

\* The conversion of a floating value n / d (d > 0) to an integer type
\* truncates toward zero.
Trunc(n, d) == IF n >= 0 THEN n \div d ELSE -((-n) \div d)

\* begin(): stepsPerFoot = (int32_t)((WLD_MIN_POS / maxL) - 0.5);
\* (WLD_MIN_POS / maxL) - 1/2 = (2 * WLD_MIN_POS - maxL) / (2 * maxL), maxL in feet.
StepsPerFoot(maxL) == Trunc(2 * WLD_MIN_POS * LevelUnit - maxL, 2 * maxL)

\* setLevel(): long target = curLevel * stepsPerFoot;
\* home(): stepper->setCurrent(stepsPerFoot * minLevel);
LevelSteps(level, perFoot) == Trunc(level * perFoot, LevelUnit)

\* Mutant: setLevel() checks the upper end of the range only.
OutOfRange_MaxOnly(level) == level > wld.maxLevel

\* setLevel(): if (level > maxLevel || level < minLevel)
OutOfRange(level) == level > wld.maxLevel \/ level < wld.minLevel

\* home(), reading the power pin as p53 on entry and as p63 on return: with
\* power present the stepper is driven to the limit switch and its position
\* set to that of minLevel; the answer is the second reading.
Home(p53, p63, w, st) ==
    [ homed |-> p53,
      ok |-> p63,
      stepper |-> IF p53
                  THEN [st EXCEPT !.current = LevelSteps(w.minLevel, w.stepsPerFoot)]
                  ELSE st ]

\* Mutant: run() reaches stepper->tick() without looking at powerIsOn.
TickReached_Unpowered(on, again, ok) == again => ok

\* run(): stepper->tick() is inside if (powerIsOn), after the return taken when
\* a display that is not ready (again) could not be homed (ok is home()'s answer).
TickReached(on, again, ok) == on /\ (again => ok)

\* stepper->tick() in FOLLOW_POS mode: at most one step toward the target.
Tick(st) ==
    IF st.current < st.target THEN [st EXCEPT !.current = st.current + 1]
    ELSE IF st.current > st.target THEN [st EXCEPT !.current = st.current - 1]
    ELSE st

(***************************************************************************)
(* The constructor: tc is a global object, so the members the constructor  *)
(* does not assign (stepsNeeded, the timestamps, face and motor) are       *)
(* zero-initialised.                                                       *)
(***************************************************************************)
Constructed(isPaused) ==
    /\ begun = FALSE
    /\ faceType = tcLinear
    /\ motorType = tcOne
    /\ stepType = TRUE
    /\ paused = isPaused
    /\ stepsTaken = 0
    /\ stepsNeeded = 0
    /\ nextTide = [tideType |-> TC_UNAVAILABLE, time |-> 0]
    /\ gotTideMillis = ToU32(0)
    /\ lastMillis = ToU32(0)
    /\ millis = ToU32(0)
    /\ now = StartTime
    /\ calls = 0
    /\ sincePulse = -1
    /\ sinceAsk = -1
    /\ lastAnswer = -1
    /\ pins = << LOW, LOW >>
    /\ lastLine = "none"
    /\ passed = FALSE
    /\ sincePassed = -1
    /\ obs = Quiet
    \* WlDisplay::WlDisplay sets ready; wld is a global object too.
    \* unstableSince is history: millis() when powerUnstable last became true
    /\ wld = [ begun |-> FALSE, ready |-> FALSE, powerIsOn |-> FALSE,
               powerUnstable |-> FALSE, becameUnstableMillis |-> ToU32(0),
               unstableSince |-> ToU32(0),
               minLevel |-> 0, maxLevel |-> 0, stepsPerFoot |-> 0, curLevel |-> 0 ]
    /\ stepper = [ target |-> 0, current |-> 0 ]
    /\ needsHome = FALSE
    /\ wlCalls = 0
    /\ wlObs = WlQuiet
    /\ homing = HomeIdle
    \* main.cpp's globals are zero-initialised: notInit, tcLinear and tcOne
    \* are the first enumerators
    /\ opMode = "notInit"
    /\ config = [clockFace |-> tcLinear, motor |-> tcOne]
    /\ testTick = 0
    /\ testNsecs = 0
    /\ testTicksTaken = 0
    /\ stepsToTick = 0
    /\ lastTickMillis = ToU32(0)
    /\ mainObs = MainQuiet
    /\ tideObs = TideQuiet
    \* getPredWl()'s static and the global predWl[] (zero-initialised)
    /\ dataMidnight = 0
    /\ predWl = 0
    /\ predCalls = 0
    /\ predObs = PredQuiet

\* TideClock::TideClock sets paused = false.
Init == Constructed(FALSE)

(***************************************************************************)
(* begin(h, type, motor), called once by setup()                           *)
(***************************************************************************)
\* Mutant: begin() takes its own time as the time of the latest query.
GotTideAtBegin_Now(last) == last

\* begin(): gotTideMillis = lastMillis - TC_ASK_TIDE_MILLIS; (unsigned, 32 bits)
GotTideAtBegin(last) == U32Sub(last, ToU32(TC_ASK_TIDE_MILLIS))

\* begin(h, type, motor) itself; what the caller does besides is left open.
TcBegin(type, motor, m0) ==
    /\ ~begun
    /\ begun' = TRUE
    /\ faceType' = type
    /\ motorType' = motor
    /\ millis' = ToU32(m0)
    /\ lastMillis' = ToU32(m0)
    /\ gotTideMillis' = GotTideAtBegin(ToU32(m0))
    /\ sincePassed' = 0
    /\ obs' = [Quiet EXCEPT !.op = "begin"]
    /\ UNCHANGED << stepType, paused, stepsTaken, stepsNeeded, nextTide, now, calls,
                    sincePulse, sinceAsk, lastAnswer, pins, lastLine, passed >>

Begin(type, motor, m0) ==
    /\ TcBegin(type, motor, m0)
    /\ UNCHANGED << display, homing, predictions, app, tideObs >>

(***************************************************************************)
(* run(t): one invocation, gap[1] ms and gap[2] s after the previous one   *)
(***************************************************************************)
\* The part of run() from "Calculate the new value for stepsNeeded" on, for
\* the target tide (the old one, or the one just fetched).
RunCompute(curMillis, t, tide, startingNewCycle, o) ==
    LET firstPass == nextTide.time = 0
        missedCycle == startingNewCycle /\ MissedCycle(tide)
        secToNextTide == SecToNextTide(tide, t)
        secFromCycleEnd == SecFromCycleEnd(faceType, secToNextTide)
    IN  \E ticks \in Ticks(faceType, secFromCycleEnd) :
          LET base == StepsFor(ticks)
              needed == IF startingNewCycle /\ missedCycle THEN Inflate(base) ELSE base
              pausing == startingNewCycle /\ ShouldPause(secFromCycleEnd, missedCycle)
              taken0 == IF startingNewCycle THEN StepsTakenOnNewCycle ELSE stepsTaken
              taken == IF startingNewCycle /\ ~pausing
                       THEN FirstPassPolicy(firstPass, needed, taken0)
                       ELSE taken0
              paused1 == pausing \/ paused
          IN  /\ lastMillis' = curMillis
              /\ nextTide' = tide
              /\ stepsNeeded' = needed
              /\ stepsTaken' = taken
              /\ paused' = IF paused1 /\ FloatIsZero(secFromCycleEnd) THEN FALSE
                           ELSE paused1
              /\ obs' = [o EXCEPT !.path = IF startingNewCycle THEN "newcycle"
                                           ELSE "recompute",
                                  !.firstPass = firstPass,
                                  !.missedCycle = missedCycle,
                                  !.prevType = nextTide.tideType,
                                  !.base = base,
                                  !.secTo = secToNextTide,
                                  !.fromEnd = secFromCycleEnd]
              /\ UNCHANGED stepType

\* run(t) itself; answers: what the handler may answer if this invocation
\* asks it.
TcRunWith(gap, answers) ==
    /\ begun
    /\ calls < MaxCalls
    /\ LET curMillis == U32Add(millis, ToU32(gap[1]))
           t == now + gap[2]
           pulseGap == Elapsed(sincePulse, gap[1], TC_ONE_MIN_STEP_INTERVAL)
           askGap == Elapsed(sinceAsk, gap[1], TC_ASK_TIDE_MILLIS)
           passGap == Elapsed(sincePassed, gap[1], TC_ONE_MIN_STEP_INTERVAL)
           o == [Quiet EXCEPT !.op = "run", !.prevLine = lastLine,
                              !.passGap = passGap]
       IN  /\ millis' = curMillis
           /\ sincePassed' = IF Throttled(curMillis) THEN passGap ELSE 0
           /\ now' = t
           /\ calls' = calls + 1
           /\ UNCHANGED << begun, faceType, motorType >>
           /\ IF Throttled(curMillis)
              THEN /\ obs' = [o EXCEPT !.path = "throttled"]
                   /\ sincePulse' = pulseGap
                   /\ sinceAsk' = askGap
                   /\ UNCHANGED << clock, lastAnswer, pins, lastLine, passed >>
              ELSE IF StepDue
              THEN \* step(); stepsTaken++; return;
                   /\ lastMillis' = curMillis
                   /\ passed' = TRUE
                   /\ stepType' = ~stepType
                   /\ pins' = StepLevels[Len(StepLevels)]
                   /\ lastLine' = StepLine
                   /\ stepsTaken' = Stepped(stepsTaken)
                   /\ obs' = [o EXCEPT !.path = "step", !.pulse = TRUE,
                                       !.line = StepLine, !.pulseGap = pulseGap,
                                       !.levels = StepLevels]
                   /\ sincePulse' = 0
                   /\ sinceAsk' = askGap
                   /\ UNCHANGED << paused, stepsNeeded, nextTide, gotTideMillis,
                                   lastAnswer >>
              ELSE IF PastTarget(t)
              THEN IF AskTooSoon(curMillis)
                   THEN /\ lastMillis' = curMillis
                        /\ passed' = TRUE
                        /\ obs' = [o EXCEPT !.path = "deferred"]
                        /\ sincePulse' = pulseGap
                        /\ sinceAsk' = askGap
                        /\ UNCHANGED << stepType, paused, stepsTaken, stepsNeeded,
                                        nextTide, gotTideMillis, lastAnswer, pins,
                                        lastLine >>
                   ELSE \E newTide \in answers :
                          /\ gotTideMillis' = curMillis
                          /\ passed' = TRUE
                          /\ sincePulse' = pulseGap
                          /\ sinceAsk' = 0
                          /\ lastAnswer' = newTide.tideType
                          /\ UNCHANGED << pins, lastLine >>
                          /\ IF newTide.tideType = TC_UNAVAILABLE
                             THEN /\ lastMillis' = curMillis
                                  /\ obs' = [o EXCEPT !.path = "unavailable",
                                                      !.asked = TRUE,
                                                      !.askGap = askGap]
                                  /\ UNCHANGED << stepType, paused, stepsTaken,
                                                  stepsNeeded, nextTide >>
                             ELSE RunCompute(curMillis, t, newTide, TRUE,
                                             [o EXCEPT !.asked = TRUE,
                                                       !.answer = newTide.tideType,
                                                       !.askGap = askGap])
              ELSE /\ sincePulse' = pulseGap
                   /\ sinceAsk' = askGap
                   /\ passed' = TRUE
                   /\ UNCHANGED << gotTideMillis, lastAnswer, pins, lastLine >>
                   /\ RunCompute(curMillis, t, nextTide, FALSE, o)

RunWith(gap, answers) ==
    /\ TcRunWith(gap, answers)
    /\ UNCHANGED << display, homing, predictions, app, tideObs >>

Run(gap) == RunWith(gap, HandlerAnswers(now + gap[2]))

(***************************************************************************)
(* test(): one invocation, gap[1] ms and gap[2] s after the previous one   *)
(***************************************************************************)
\* test() itself
TcTest(gap) ==
    /\ begun
    /\ calls < MaxCalls
    /\ LET curMillis == U32Add(millis, ToU32(gap[1]))
           pulseGap == Elapsed(sincePulse, gap[1], TC_ONE_MIN_STEP_INTERVAL)
           passGap == Elapsed(sincePassed, gap[1], TC_ONE_MIN_STEP_INTERVAL)
           o == [Quiet EXCEPT !.op = "test", !.prevLine = lastLine,
                              !.passGap = passGap]
       IN  /\ millis' = curMillis
           /\ sincePassed' = IF TestThrottled(curMillis) THEN passGap ELSE 0
           /\ now' = now + gap[2]
           /\ calls' = calls + 1
           /\ nextTide' = [nextTide EXCEPT !.time = 0]
           /\ sinceAsk' = Elapsed(sinceAsk, gap[1], TC_ASK_TIDE_MILLIS)
           /\ UNCHANGED << begun, faceType, motorType, paused, stepsTaken,
                           stepsNeeded, gotTideMillis, lastAnswer >>
           /\ IF TestThrottled(curMillis)
              THEN /\ obs' = [o EXCEPT !.path = "throttled"]
                   /\ sincePulse' = pulseGap
                   /\ UNCHANGED << lastMillis, stepType, pins, lastLine, passed >>
              ELSE /\ lastMillis' = curMillis
                   /\ stepType' = ~stepType
                   /\ pins' = StepLevels[Len(StepLevels)]
                   /\ lastLine' = StepLine
                   /\ passed' = TRUE
                   /\ obs' = [o EXCEPT !.path = "step", !.pulse = TRUE,
                                       !.line = StepLine, !.pulseGap = pulseGap,
                                       !.levels = StepLevels, !.ret = TRUE]
                   /\ sincePulse' = 0

Test(gap) ==
    /\ TcTest(gap)
    /\ UNCHANGED << display, homing, predictions, app, tideObs >>

Next ==
    \/ \E type \in {tcLinear, tcNonlinear}, motor \in {tcOne, tcSixteen},
          m0 \in BeginMillis : Begin(type, motor, m0)
    \/ \E gap \in Gaps : Run(gap)
    \/ \E gap \in Gaps : Test(gap)

Spec == Init /\ [][Next]_vars

(***************************************************************************)
(* The face formulas over every distance of the target: the first run()    *)
(* after begin() acquires a target 1 s .. one face span away, and a later  *)
(* run() is made at the very time of a target that was close.              *)
(***************************************************************************)
\* The distances (seconds) of the first target.
FaceOffsets(face) == 1 .. Span(face)

\* How close (seconds) a target is for the run() made at its time.
ArriveWithin == 60

\* The first run() after begin(), the handler answering a tide off s away.
Acquire(off) ==
    /\ calls = 0
    /\ RunWith(<< TC_ONE_MIN_STEP_INTERVAL, 0 >>,
               { [tideType |-> HIGH, time |-> now + off] })

\* The run() made at the time of the target.
Arrive ==
    /\ calls = 1
    /\ nextTide.time - now <= ArriveWithin
    /\ LET d == nextTide.time - now
       IN  RunWith(<< 1000 * d, d >>, HandlerAnswers(now + d))

FaceNext ==
    \/ \E type \in {tcLinear, tcNonlinear}, motor \in {tcOne, tcSixteen},
          m0 \in BeginMillis : Begin(type, motor, m0)
    \/ begun /\ calls = 0 /\ \E off \in FaceOffsets(faceType) : Acquire(off)
    \/ Arrive

SpecFace == Init /\ [][FaceNext]_vars

(***************************************************************************)
(* Whole tide cycles: targets inside the face span, and the quick steps    *)
(* of a catch-up taken together.  While stepsNeeded > stepsTaken every     *)
(* run() invocation that passes the motor throttle does step();            *)
(* stepsTaken++; return; and nothing else, so D such invocations in a row, *)
(* each made minStepInterval ms after the one before, are one action here. *)
(***************************************************************************)
\* The largest catch-up taken in one action: a missed cycle on a tcSixteen
\* motor, 2 * 1800 ticks of 16 steps.
MaxQuickSteps == 2 * TC_SIXTEEN_STEPS_PER_TICK * TC_TICKS_IN_A_CYCLE

\* The handler's answers that lie inside the face span.
CycleAnswers(t) ==
    { [tideType |-> k, time |-> t + off] :
        k \in {HIGH, LOW},
        off \in { a \in AnswerOffsets(Span(faceType)) : a <= Span(faceType) } }

\* The line step() pulses when stepType is st.
LineOf(st) == IF st THEN "tick" ELSE "tock"

\* D = stepsNeeded - stepsTaken consecutive un-throttled run() invocations.
CatchUp ==
    /\ begun
    /\ calls < MaxCalls
    /\ StepDue
    /\ stepsNeeded - stepsTaken <= MaxQuickSteps
    /\ LET D == stepsNeeded - stepsTaken
           ms == D * minStepInterval
           curMillis == U32Add(millis, ToU32(ms))
           lastType == IF D % 2 = 1 THEN stepType ELSE ~stepType
           before == IF D > 1 THEN LineOf(~lastType) ELSE lastLine
           spacing == IF D > 1
                      THEN Elapsed(0, minStepInterval, TC_ONE_MIN_STEP_INTERVAL)
                      ELSE Elapsed(sincePulse, ms, TC_ONE_MIN_STEP_INTERVAL)
       IN  /\ millis' = curMillis
           /\ lastMillis' = curMillis
           /\ now' = now + (ms \div 1000)
           /\ calls' = calls + 1
           /\ stepsTaken' = stepsNeeded
           /\ stepType' = ~lastType
           /\ pins' = << LOW, LOW >>
           /\ lastLine' = LineOf(lastType)
           /\ passed' = TRUE
           /\ sincePulse' = 0
           /\ sincePassed' = 0
           /\ sinceAsk' = Elapsed(sinceAsk, ms, TC_ASK_TIDE_MILLIS)
           /\ obs' = [Quiet EXCEPT !.op = "run", !.path = "step", !.pulse = TRUE,
                                   !.line = LineOf(lastType), !.prevLine = before,
                                   !.pulseGap = spacing, !.passGap = spacing,
                                   !.levels = IF lastType
                                              THEN << << HIGH, LOW >>, << LOW, LOW >> >>
                                              ELSE << << LOW, HIGH >>, << LOW, LOW >> >>]
           /\ UNCHANGED << begun, faceType, motorType, paused, stepsNeeded, nextTide,
                           gotTideMillis, lastAnswer >>
           /\ UNCHANGED << display, homing, predictions, app, tideObs >>

CycleNext ==
    \/ \E type \in {tcLinear, tcNonlinear}, motor \in {tcOne, tcSixteen},
          m0 \in BeginMillis : Begin(type, motor, m0)
    \/ \E gap \in Gaps : RunWith(gap, CycleAnswers(now + gap[2]))
    \/ CatchUp

SpecCycle == Init /\ [][CycleNext]_vars

(***************************************************************************)
(* The pause handling at the end of run() (lines 129-136), exercised on a  *)
(* clock whose paused flag is set, as line 116 leaves it.  From Init the   *)
(* flag is never set, because secFromCycleEnd is never negative, so this   *)
(* specification starts behind line 116.                                   *)
(***************************************************************************)
PauseInit == Constructed(TRUE)

PauseNext ==
    \/ \E type \in {tcLinear, tcNonlinear}, motor \in {tcOne, tcSixteen},
          m0 \in BeginMillis : Begin(type, motor, m0)
    \/ \E gap \in Gaps : Run(gap)

SpecPause == PauseInit /\ [][PauseNext]_vars

(***************************************************************************)
(* The wrap of millis(): begin() is called shortly before the 32-bit       *)
(* millisecond counter wraps (after 49.7 days of uptime), so that the      *)
(* invocations that follow straddle the wrap.                              *)
(***************************************************************************)
\* millis() at begin(), modulo 2^32: 300 ms before the wrap (the first two
\* handler calls straddle it) and 120500 ms before it (the two pulses of a
\* catch-up do).
WrapBeginMillis == { -300, -120500 }

WrapNext ==
    \/ \E type \in {tcLinear, tcNonlinear}, motor \in {tcOne, tcSixteen},
          m0 \in WrapBeginMillis : Begin(type, motor, m0)
    \/ \E gap \in Gaps : Run(gap)

SpecWrap == Init /\ [][WrapNext]_vars

(***************************************************************************)
(* The first query: begin() is called at various values of millis(), below *)
(* and above the query window TC_ASK_TIDE_MILLIS and just before the wrap. *)
(***************************************************************************)
\* millis() at begin(): 0 and 3000 (the subtraction in begin() wraps), the
\* two sides of TC_ASK_TIDE_MILLIS, well above it, and 300 ms before the wrap
\* of millis() itself.
FirstBeginMillis == { 0, 3000, 119999, 120000, 300000, -300 }

FirstNext ==
    \/ \E type \in {tcLinear, tcNonlinear}, motor \in {tcOne, tcSixteen},
          m0 \in FirstBeginMillis : Begin(type, motor, m0)
    \/ \E gap \in Gaps : RunWith(gap, AppAnswers(now + gap[2]))
    \/ \E gap \in Gaps : Test(gap)

SpecFirst == Init /\ [][FirstNext]_vars

(***************************************************************************)
(* WlDisplay: begin(), setLevel() and run() as setup() and loop() call     *)
(* them.  Every digitalRead of the power pin is an input of its own.       *)
(***************************************************************************)
\* The number of WlDisplay run()/setLevel() invocations explored.
MaxWlCalls == 5

\* The time (ms) between two invocations: inside and outside the debounce
\* window WLD_ENOUGH_MILLIS.
WlGaps == { 10, 100 }

\* The levels (hundredths of a foot) setLevel() is asked to show: just below,
\* at and inside the range, at its upper end and just above.
Levels == { -431, -430, 0, 150, 1210, 1211 }

\* begin(minL, maxL), called once by setup(); p is the power pin's reading.
WlDisplayBegin(m0, p) ==
    /\ ~wld.begun
    /\ wlCalls = 0
    /\ millis' = ToU32(m0)
    /\ wld' = [wld EXCEPT !.begun = TRUE,
                          !.minLevel = TAT_STATION_MIN_LEVEL,
                          !.maxLevel = TAT_STATION_MAX_LEVEL,
                          !.stepsPerFoot = StepsPerFoot(TAT_STATION_MAX_LEVEL),
                          !.powerIsOn = p,
                          !.powerUnstable = TRUE,
                          !.unstableSince = ToU32(m0)]
    /\ wlObs' = [WlQuiet EXCEPT !.op = "begin"]
    /\ UNCHANGED << stepper, needsHome, wlCalls >>

WlBegin(m0, p) ==
    /\ WlDisplayBegin(m0, p)
    /\ UNCHANGED << tideClock, homing, predictions, app, tideObs >>

\* setLevel(level)
SetLevel(level) ==
    /\ wlCalls < MaxWlCalls
    /\ wlCalls' = wlCalls + 1
    /\ IF OutOfRange(level)
       THEN /\ wlObs' = [WlQuiet EXCEPT !.op = "setLevel", !.level = level,
                                        !.ignored = TRUE]
            /\ UNCHANGED << wld, stepper >>
       ELSE /\ wld' = [wld EXCEPT !.curLevel = level]
            /\ stepper' = [stepper EXCEPT
                             !.target = LevelSteps(level, wld.stepsPerFoot)]
            /\ wlObs' = [WlQuiet EXCEPT !.op = "setLevel", !.level = level]
    /\ UNCHANGED << needsHome, millis, tideClock, homing, predictions, app, tideObs >>

\* run(), gap ms after the previous invocation; p94 is the power pin's reading
\* at its start, h1 and h2 the << entry, return >> readings of the first and
\* the second home() it may call.
WlRun(gap, p94, h1, h2) ==
    /\ wlCalls < MaxWlCalls
    /\ wlCalls' = wlCalls + 1
    /\ LET curMillis == U32Add(millis, ToU32(gap))
           settled == /\ wld.powerUnstable
                      /\ ~U32Less(U32Sub(curMillis, wld.becameUnstableMillis),
                                  WLD_ENOUGH_MILLIS)
           o == [WlQuiet EXCEPT !.op = "run"]
       IN  /\ millis' = curMillis
           /\ UNCHANGED << tideClock, homing, predictions, app, tideObs >>
           /\ IF wld.powerUnstable /\ ~settled
              THEN \* still inside the debounce window: return
                   /\ wlObs' = o
                   /\ UNCHANGED << wld, stepper, needsHome >>
              ELSE IF ~wld.powerUnstable /\ p94 # wld.powerIsOn
              THEN \* the reading changed: start the debounce window, return
                   /\ wld' = [wld EXCEPT !.powerUnstable = TRUE,
                                         !.becameUnstableMillis = curMillis,
                                         !.unstableSince = curMillis]
                   /\ wlObs' = o
                   /\ UNCHANGED << stepper, needsHome >>
              ELSE LET powerCameOn == settled /\ p94 /\ ~wld.powerIsOn
                       on == IF settled THEN p94 ELSE wld.powerIsOn
                       r1 == Home(h1[1], h1[2], wld, stepper)
                       st1 == IF powerCameOn THEN r1.stepper ELSE stepper
                       again == on /\ ~wld.ready
                       r2 == Home(h2[1], h2[2], wld, st1)
                       st2 == IF again THEN r2.stepper ELSE st1
                       ticking == TickReached(on, again, r2.ok)
                       homings == (IF powerCameOn /\ r1.homed THEN 1 ELSE 0)
                                  + (IF again /\ r2.homed THEN 1 ELSE 0)
                   IN  /\ wld' = [wld EXCEPT
                                    !.powerUnstable = FALSE,
                                    !.powerIsOn = on,
                                    !.ready = IF again THEN r2.ok ELSE wld.ready]
                       /\ stepper' = IF ticking THEN Tick(st2) ELSE st2
                       /\ needsHome' = IF homings > 0 THEN FALSE
                                       ELSE (powerCameOn \/ needsHome)
                       /\ wlObs' = [o EXCEPT
                                      !.cameOn = powerCameOn,
                                      !.homeCalls = (IF powerCameOn THEN 1 ELSE 0)
                                                    + (IF again THEN 1 ELSE 0),
                                      !.homings = homings,
                                      !.ticked = ticking]

WlNext ==
    \/ \E m0 \in BeginMillis, p \in BOOLEAN : WlBegin(m0, p)
    \/ \E level \in Levels : SetLevel(level)
    \/ \E gap \in WlGaps, p94 \in BOOLEAN, h1, h2 \in BOOLEAN \X BOOLEAN :
          WlRun(gap, p94, h1, h2)

SpecWl == Init /\ [][WlNext]_vars

(***************************************************************************)
(* The water level predictions: getPredWl() as loop() calls it             *)
(***************************************************************************)
SECONDS_PER_DAY == 86400

\* The number of getPredWl() calls explored.
MaxPredCalls == 4

\* The wall time (s) between two calls: the level check interval, the time
\* from StartTime to the next midnight UTC, and a whole day.
PredGaps == { 360, 6400, 86400 }

\* midnightNow = (nowSecs / SECONDS_PER_DAY) * SECONDS_PER_DAY
MidnightOf(t) == (t \div SECONDS_PER_DAY) * SECONDS_PER_DAY

\* getPredWl(), dt seconds after the latest invocation; ok is the answer of
\* getWlPredections(), which fills all of predWl[] when it answers true and
\* leaves it alone otherwise.  The value returned is LEVEL_UNAVAILABLE or the
\* entry of predWl[] for the time of day.
GetPredWl(dt, ok) ==
    /\ predCalls < MaxPredCalls
    /\ predCalls' = predCalls + 1
    /\ now' = now + dt
    /\ LET nowSecs == now + dt
           midnightNow == MidnightOf(nowSecs)
           o == [PredQuiet EXCEPT !.op = "getPredWl", !.midnight = midnightNow]
       IN  IF dataMidnight # midnightNow
           THEN /\ dataMidnight' = midnightNow
                /\ IF ~ok
                   THEN /\ predWl' = predWl
                        /\ predObs' = [o EXCEPT !.fetched = TRUE,
                                                !.ret = "unavailable"]
                   ELSE /\ predWl' = midnightNow
                        /\ predObs' = [o EXCEPT !.fetched = TRUE, !.ok = TRUE,
                                                !.ret = "entry"]
           ELSE /\ predObs' = [o EXCEPT !.ret = "entry"]
                /\ UNCHANGED << dataMidnight, predWl >>
    /\ UNCHANGED << begun, faceType, motorType, clock, calls, sincePulse, sinceAsk,
                    lastAnswer, pins, lastLine, passed, sincePassed, obs, millis,
                    display, homing, app, tideObs >>

PredNext == \E dt \in PredGaps, ok \in BOOLEAN : GetPredWl(dt, ok)

SpecPred == Init /\ [][PredNext]_vars

(***************************************************************************)
(* WlDisplay::home() step by step.  The stepper's supply (the USB power    *)
(* the power pin senses) can come and go while home() runs; the limit pin  *)
(* reads HIGH until the stepper has reached the limit switch, and the      *)
(* stepper moves only while its supply is present.                         *)
(***************************************************************************)
\* The largest distance (steps) between the stepper and the limit switch at
\* the start of a home() call.
MaxDistance == 30

\* home() is entered with the stepper d steps from the limit switch and the
\* supply present or not (p): if (digitalRead(powerPin) == HIGH) { ... }
HomeCall(d, p) ==
    /\ wld.begun
    /\ homing.pc \in {"idle", "done"}
    /\ homing' = [ pc |-> IF p THEN "test" ELSE "return", distance |-> d,
                   powered |-> p, homed |-> FALSE, ret |-> FALSE ]
    /\ UNCHANGED << wld, stepper, needsHome, wlCalls, wlObs, millis, tideClock,
                    predictions, app, tideObs >>

\* The supply comes or goes while home() runs.
PowerChange ==
    /\ homing.pc \in {"test", "tick", "return"}
    /\ homing' = [homing EXCEPT !.powered = ~homing.powered]
    /\ UNCHANGED << wld, stepper, needsHome, wlCalls, wlObs, millis, tideClock,
                    predictions, app, tideObs >>

\* while (digitalRead(limitPin) == HIGH); after the loop setRunMode(FOLLOW_POS),
\* setMaxSpeed and setCurrent(stepsPerFoot * minLevel).
HomeTest ==
    /\ homing.pc = "test"
    /\ IF homing.distance > 0
       THEN /\ homing' = [homing EXCEPT !.pc = "tick"]
            /\ UNCHANGED stepper
       ELSE /\ homing' = [homing EXCEPT !.pc = "return", !.homed = TRUE]
            /\ stepper' = [stepper EXCEPT
                             !.current = LevelSteps(wld.minLevel, wld.stepsPerFoot)]
    /\ UNCHANGED << wld, needsHome, wlCalls, wlObs, millis, tideClock, predictions, app, tideObs >>

\* stepper->tick() in KEEP_SPEED mode: a step toward the limit switch, which
\* the motor takes only if its supply is present.
HomeTick ==
    /\ homing.pc = "tick"
    /\ homing' = [homing EXCEPT
                    !.pc = "test",
                    !.distance = IF homing.powered THEN homing.distance - 1
                                 ELSE homing.distance]
    /\ UNCHANGED << wld, stepper, needsHome, wlCalls, wlObs, millis, tideClock,
                    predictions, app, tideObs >>

\* return digitalRead(powerPin) == HIGH;
HomeReturn ==
    /\ homing.pc = "return"
    /\ homing' = [homing EXCEPT !.pc = "done", !.ret = homing.powered]
    /\ UNCHANGED << wld, stepper, needsHome, wlCalls, wlObs, millis, tideClock,
                    predictions, app, tideObs >>

\* The steps home() takes by itself once it has been called.
HomeStep == HomeTest \/ HomeTick \/ HomeReturn

HomeNext ==
    \/ \E m0 \in BeginMillis, p \in BOOLEAN : WlBegin(m0, p)
    \/ \E d \in 0 .. MaxDistance, p \in BOOLEAN : HomeCall(d, p)
    \/ PowerChange
    \/ HomeStep

\* The processor keeps executing home() once it has been called; nothing is
\* assumed about the supply.
SpecHome == Init /\ [][HomeNext]_vars /\ WF_vars(HomeStep)

(***************************************************************************)
(* main.cpp: setup(), the command handlers that ui.run() dispatches, and   *)
(* the part of loop() that drives the tide clock (lines 805-841).  The     *)
(* water level display and the predictions, which loop() drives next and   *)
(* which share no state with the clock, are explored by SpecWl, SpecPred   *)
(* and SpecHome.                                                           *)
(***************************************************************************)
\* A value of the uint8_t-based enums tc_scale_t / tc_motor_t other than
\* their two enumerators.
tcInvalid == "tcInvalid"

\* config.h: the default face
TAT_FACE_TYPE == tcNonlinear

\* The configurations the blob in non-volatile storage may hold: two that the
\* config command can produce, and one with other bytes.
StoredConfigs ==
    { [clockFace |-> tcNonlinear, motor |-> tcOne],
      [clockFace |-> tcLinear, motor |-> tcSixteen],
      [clockFace |-> tcInvalid, motor |-> tcInvalid] }

\* The number of loop() iterations explored.
MaxLoops == 3

\* The time that passes between two loop() iterations in this specification.
AppGaps == { <<200, 0>>, <<120000, 120>> }

\* The arguments of the tick command: the number of ticks and the seconds
\* between them.
TickCounts == { 0, 1 }
TickSecs == { 0, 1 }

\* getConfig(): the defaults (the motor is not among them), replaced by the
\* stored blob if it could be read.
GetConfig(stored, cfgOk) ==
    IF cfgOk THEN stored ELSE [config EXCEPT !.clockFace = TAT_FACE_TYPE]

\* setup(): cfgOk, wifiOk and ntpOk are the results of getConfig(),
\* connectWiFi() and setClock(); p is the power pin's reading in wld.begin().
Setup(stored, cfgOk, wifiOk, ntpOk, m0, p) ==
    /\ ~mainObs.setup
    /\ config' = GetConfig(stored, cfgOk)
    /\ opMode' = IF cfgOk /\ wifiOk /\ ntpOk THEN "run" ELSE "notInit"
    /\ mainObs' = [MainQuiet EXCEPT !.setup = TRUE]
    /\ UNCHANGED << testTick, testNsecs, testTicksTaken, stepsToTick,
                    lastTickMillis, homing, predictions, tideObs >>
    /\ IF cfgOk /\ wifiOk
       THEN /\ WlDisplayBegin(m0, p)
            /\ TcBegin(config'.clockFace, config'.motor, m0)
       ELSE /\ millis' = ToU32(m0)
            /\ UNCHANGED << tideClock, display >>

\* onMode(): mode run | test | anything else
OnMode(modeName) ==
    /\ mainObs.setup
    /\ opMode' = IF modeName = "run" THEN "run"
                 ELSE IF modeName = "test" THEN "test"
                 ELSE opMode
    /\ mainObs' = [mainObs EXCEPT !.called = "none"]
    /\ UNCHANGED << config, testTick, testNsecs, testTicksTaken, stepsToTick,
                    lastTickMillis >>
    /\ UNCHANGED << tideClock, millis, display, homing, predictions, tideObs >>

\* onTick(): tick nTicks [nSecs]
OnTick(nTicks, nSecs) ==
    /\ mainObs.setup
    /\ mainObs' = [mainObs EXCEPT !.called = "none"]
    /\ IF opMode # "test"
       THEN UNCHANGED << testTick, testNsecs, testTicksTaken >>
       ELSE /\ testTick' = nTicks
            /\ testNsecs' = IF nSecs < 1 THEN 6 ELSE nSecs
            /\ testTicksTaken' = 0
    /\ UNCHANGED << opMode, config, stepsToTick, lastTickMillis >>
    /\ UNCHANGED << tideClock, millis, display, homing, predictions, tideObs >>

\* onConfig(): config face <name> and config motor <name>
OnConfig(subCmd, name) ==
    /\ mainObs.setup
    /\ mainObs' = [mainObs EXCEPT !.called = "none"]
    /\ config' =
         IF subCmd = "face"
         THEN IF name = "linear" THEN [config EXCEPT !.clockFace = tcLinear]
              ELSE IF name = "nonlinear"
              THEN [config EXCEPT !.clockFace = tcNonlinear]
              ELSE config
         ELSE IF name = "one" THEN [config EXCEPT !.motor = tcOne]
              ELSE IF name = "sixteen" THEN [config EXCEPT !.motor = tcSixteen]
              ELSE config
    /\ UNCHANGED << opMode, testTick, testNsecs, testTicksTaken, stepsToTick,
                    lastTickMillis >>
    /\ UNCHANGED << tideClock, millis, display, homing, predictions, tideObs >>

\* A loop() iteration that calls neither tc.run() nor tc.test().
LoopIdle(gap) ==
    /\ millis' = U32Add(millis, ToU32(gap[1]))
    /\ now' = now + gap[2]
    /\ calls' = calls + 1
    /\ sincePulse' = Elapsed(sincePulse, gap[1], TC_ONE_MIN_STEP_INTERVAL)
    /\ sinceAsk' = Elapsed(sinceAsk, gap[1], TC_ASK_TIDE_MILLIS)
    /\ sincePassed' = Elapsed(sincePassed, gap[1], TC_ONE_MIN_STEP_INTERVAL)
    /\ obs' = Quiet
    /\ UNCHANGED << begun, faceType, motorType, clock, lastAnswer, pins,
                    lastLine, passed >>

\* test() on a clock whose begin() was not called: minStepInterval and
\* pulseDuration are still zero, so the throttle lets every invocation through
\* and step() pulses a line for 0 ms.
UnbegunTest(gap) ==
    /\ millis' = U32Add(millis, ToU32(gap[1]))
    /\ now' = now + gap[2]
    /\ calls' = calls + 1
    /\ nextTide' = [nextTide EXCEPT !.time = 0]
    /\ lastMillis' = millis'
    /\ stepType' = ~stepType
    /\ pins' = StepLevels[Len(StepLevels)]
    /\ lastLine' = StepLine
    /\ passed' = TRUE
    /\ sincePassed' = 0
    /\ sincePulse' = 0
    /\ sinceAsk' = Elapsed(sinceAsk, gap[1], TC_ASK_TIDE_MILLIS)
    /\ obs' = [Quiet EXCEPT !.op = "test", !.path = "step", !.pulse = TRUE,
                            !.line = StepLine, !.prevLine = lastLine,
                            !.levels = StepLevels, !.ret = TRUE,
                            !.pulseGap = Elapsed(sincePulse, gap[1],
                                                 TC_ONE_MIN_STEP_INTERVAL)]
    /\ UNCHANGED << begun, faceType, motorType, paused, stepsTaken,
                    stepsNeeded, gotTideMillis, lastAnswer >>

\* run(t) on a clock whose begin() was not called: no throttle and no step
\* due (the members are zero), t is past the time-zero target, and once the
\* query throttle has run out (gotTideMillis is zero) the null handler is
\* called.
UnbegunRun(gap) ==
    LET curMillis == U32Add(millis, ToU32(gap[1]))
    IN  /\ millis' = curMillis
        /\ now' = now + gap[2]
        /\ calls' = calls + 1
        /\ lastMillis' = curMillis
        /\ passed' = TRUE
        /\ sincePassed' = 0
        /\ sincePulse' = Elapsed(sincePulse, gap[1], TC_ONE_MIN_STEP_INTERVAL)
        /\ sinceAsk' = Elapsed(sinceAsk, gap[1], TC_ASK_TIDE_MILLIS)
        /\ obs' = [Quiet EXCEPT !.op = "run",
                                !.path = IF AskTooSoon(curMillis) THEN "deferred"
                                         ELSE "nullcall",
                                !.prevLine = lastLine]
        /\ UNCHANGED << begun, faceType, motorType, stepType, paused, stepsTaken,
                        stepsNeeded, nextTide, gotTideMillis, lastAnswer, pins,
                        lastLine >>

\* loop(), lines 805-824: test mode
LoopTest(gap) ==
    LET curMillis == U32Add(millis, ToU32(gap[1]))
        due == /\ testTick > testTicksTaken
               /\ ~U32Less(U32Sub(curMillis, lastTickMillis), testNsecs * 1000)
    IN  IF due
        THEN /\ IF begun THEN TcTest(gap) ELSE UnbegunTest(gap)
             /\ LET stepped == IF obs'.ret THEN stepsToTick + 1 ELSE stepsToTick
                    full == stepped >= (IF config.motor = tcOne
                                        THEN TC_ONE_STEPS_PER_TICK
                                        ELSE TC_SIXTEEN_STEPS_PER_TICK)
                    taken == IF full THEN testTicksTaken + 1 ELSE testTicksTaken
                    done == taken >= testTick
                IN  /\ stepsToTick' = IF full THEN 0 ELSE stepped
                    /\ lastTickMillis' = IF full THEN curMillis ELSE lastTickMillis
                    /\ testTicksTaken' = IF done THEN 0 ELSE taken
                    /\ testTick' = IF done THEN 0 ELSE testTick
             /\ mainObs' = [mainObs EXCEPT !.called = "test"]
             /\ UNCHANGED testNsecs
        ELSE /\ LoopIdle(gap)
             /\ mainObs' = [mainObs EXCEPT !.called = "none"]
             /\ UNCHANGED << testTick, testNsecs, testTicksTaken, stepsToTick,
                             lastTickMillis >>

\* loop(), lines 826-841: run mode, and nothing when not initialised
LoopRun(gap) ==
    /\ UNCHANGED << testTick, testNsecs, testTicksTaken, stepsToTick,
                    lastTickMillis >>
    /\ IF opMode # "notInit"
       THEN /\ IF begun THEN TcRunWith(gap, AppAnswers(now + gap[2]))
               ELSE UnbegunRun(gap)
            /\ mainObs' = [mainObs EXCEPT !.called = "run",
                                          !.nullCall = obs'.path = "nullcall"]
       ELSE /\ LoopIdle(gap)
            /\ mainObs' = [mainObs EXCEPT !.called = "none"]

\* loop(): one iteration, gap after the previous one.  A call through the
\* null handler ends the run of the firmware.
Loop(gap) ==
    /\ mainObs.setup
    /\ ~mainObs.nullCall
    /\ calls < MaxLoops
    /\ IF opMode = "test" THEN LoopTest(gap) ELSE LoopRun(gap)
    /\ UNCHANGED << opMode, config, display, homing, predictions, tideObs >>

AppNext ==
    \/ \E stored \in StoredConfigs, cfgOk, wifiOk, ntpOk, p \in BOOLEAN,
          m0 \in BeginMillis : Setup(stored, cfgOk, wifiOk, ntpOk, m0, p)
    \/ \E modeName \in {"run", "test", "other"} : OnMode(modeName)
    \/ \E nTicks \in TickCounts, nSecs \in TickSecs : OnTick(nTicks, nSecs)
    \/ \E subCmd \in {"face", "motor"},
          name \in {"linear", "nonlinear", "one", "sixteen", "other"} :
          OnConfig(subCmd, name)
    \/ \E gap \in AppGaps : Loop(gap)

SpecApp == Init /\ [][AppNext]_vars

(***************************************************************************)
(* main.cpp getNextTide(): the handler the tide clock is given.  The       *)
(* firmware asks for GMT and runs with TZ GMT+0, so mktime() is the civil  *)
(* calendar.                                                               *)
(***************************************************************************)
\* The number of getNextTide() calls explored.
MaxTideCalls == 2

\* The seconds between two calls; the first call is made at 22:13:20, 22:14:00
\* or 22:14:20 on 2023-11-14.
TideGaps == { 0, 40, 60 }

\* The predictions a payload may list: a high tide at "2023-11-14 22:13", a
\* low tide at "2023-11-14 22:14" and a high tide at "2023-11-15 04:20".
TideEntries ==
    { [ t |-> [year |-> 2023, mon |-> 11, mday |-> 14, hour |-> 22, min |-> 13],
        type |-> "H" ],
      [ t |-> [year |-> 2023, mon |-> 11, mday |-> 14, hour |-> 22, min |-> 14],
        type |-> "L" ],
      [ t |-> [year |-> 2023, mon |-> 11, mday |-> 15, hour |-> 4, min |-> 20],
        type |-> "H" ] }

\* The length of the longest list of predictions explored.
MaxListLen == 3

\* What getPayload() and deserializeJson() may make of the request: nothing,
\* text that is not JSON, or a document with 0 .. MaxListLen predictions.
Payloads ==
    { NoPayload, [kind |-> "garbled", list |-> << >>] } \cup
    { [kind |-> "json", list |-> l] :
        l \in UNION { [1 .. n -> TideEntries] : n \in 0 .. MaxListLen } }

\* mktime() under TZ GMT+0: the days from 1970-01-01 to the civil date.
DaysFromCivil(y, m, d) ==
    LET yy == IF m <= 2 THEN y - 1 ELSE y
        era == yy \div 400
        yoe == yy - era * 400
        doy == (153 * (IF m > 2 THEN m - 3 ELSE m + 9) + 2) \div 5 + d - 1
        doe == yoe * 365 + yoe \div 4 - yoe \div 100 + doy
    IN  era * 146097 + doe - 719468

\* fromNOAAformat(): "yyyy-mm-dd hh:mm" to time_t, tm_sec = 0
fromNOAAformat(t) ==
    DaysFromCivil(t.year, t.mon, t.mday) * SECONDS_PER_DAY
        + t.hour * 3600 + t.min * 60

\* Mutant: a prediction at the very second of the call is taken too.
IsLater_OrNow(time, nowSecs) == time >= nowSecs

\* getNextTide(): if (answer.time > nowSecs) break;
IsLater(time, nowSecs) == time > nowSecs

RECURSIVE ScanPredictions(_, _, _)
\* getNextTide(): the for loop over the predictions from index ix on (lines
\* 391-403): the first one later than nowSecs, and unavailable once the last
\* one has been passed over.
ScanPredictions(list, ix, nowSecs) ==
    LET answer == [ tideType |-> IF list[ix].type = "H" THEN HIGH ELSE LOW,
                    time |-> fromNOAAformat(list[ix].t) ]
    IN  IF IsLater(answer.time, nowSecs) THEN answer
        ELSE IF ix = Len(list) THEN [tideType |-> TC_UNAVAILABLE, time |-> 0]
        ELSE ScanPredictions(list, ix + 1, nowSecs)

\* getNextTide(): unavailable unless there is a payload, it deserializes and
\* it holds at least one prediction.
NextTideOf(payload, nowSecs) ==
    IF payload.kind = "json" /\ Len(payload.list) > 0
    THEN ScanPredictions(payload.list, 1, nowSecs)
    ELSE [tideType |-> TC_UNAVAILABLE, time |-> 0]

\* One call of getNextTide(), dt seconds after the previous one.
GetNextTide(dt, payload) ==
    /\ tideObs.calls < MaxTideCalls
    /\ LET nowSecs == tideObs.nowSecs + dt
       IN  tideObs' = [ calls |-> tideObs.calls + 1, nowSecs |-> nowSecs,
                        payload |-> payload,
                        answer |-> NextTideOf(payload, nowSecs) ]
    /\ UNCHANGED << tideClock, millis, display, homing, predictions, app >>

TideNext == \E dt \in TideGaps, payload \in Payloads : GetNextTide(dt, payload)

SpecTide == Init /\ [][TideNext]_vars

(***************************************************************************)
(* Properties                                                              *)
(***************************************************************************)

\* C1 (throttle): any two consecutive pulses, whether issued by run() or by
\* test(), are issued in invocations at least minStepInterval ms apart.
C1_PulseSpacing ==
    (obs.pulse /\ obs.pulseGap >= 0) => obs.pulseGap >= minStepInterval

\* A pulse has followed an earlier pulse, this one issued by run().
C1_Witness ==
    obs.op = "run" /\ obs.pulse /\ obs.pulseGap >= minStepInterval

\* C2 (query throttle): any two invocations of the handler happen in run()
\* calls at least TC_ASK_TIDE_MILLIS ms apart, whatever the handler answered.
C2_AskSpacing ==
    (obs.asked /\ obs.askGap >= 0) => obs.askGap >= TC_ASK_TIDE_MILLIS

\* The handler has been asked a second time, after it answered with a tide.
C2_Witness ==
    obs.asked /\ obs.askGap >= TC_ASK_TIDE_MILLIS /\ obs.prevType # TC_UNAVAILABLE
    /\ obs.path = "newcycle"

\* C3 (never over-steps): after every completed run() invocation
\* stepsTaken <= stepsNeeded.  The claim covers both face types; it is stated
\* here for the linear face, where every step of the computation is defined.
C3_NeverOverSteps ==
    (obs.op = "run" /\ faceType = tcLinear) => stepsTaken <= stepsNeeded

\* C4 (pause): a newly acquired target that is not a missed cycle and lies
\* farther away than the face span leaves the machine paused.
C4_PausesBeyondSpan ==
    (obs.path = "newcycle" /\ ~obs.missedCycle /\ obs.secTo > Span(faceType))
        => paused

\* C5 (first-run assumption): the run() invocation that acquires the first
\* target of a clock that never had one, no farther away than the face span,
\* ends with stepsTaken = stepsNeeded and issues no pulse; and the run()
\* invocation that follows it issues no catch-up pulse.
C5_FirstRun ==
    [][ /\ ( /\ obs'.path = "newcycle"
             /\ nextTide.tideType = TC_UNAVAILABLE
             /\ obs'.secTo <= Span(faceType) )
            => ( /\ stepsTaken' = stepsNeeded'
                 /\ stepType' = stepType
                 /\ ~obs'.pulse )
        /\ ( /\ obs.path = "newcycle"
             /\ obs.prevType = TC_UNAVAILABLE
             /\ obs.secTo <= Span(faceType)
             /\ obs'.op = "run" )
            => ~obs'.pulse ]_vars

\* The first target has been acquired three hours away and the steps taken
\* were set to the (positive) steps needed.
C5_Witness ==
    /\ obs.path = "newcycle"
    /\ obs.prevType = TC_UNAVAILABLE
    /\ obs.secTo = 10800
    /\ stepsTaken = stepsNeeded
    /\ stepsNeeded > 0

\* C6 (missed-cycle compensation): the stepsNeeded of an acquiring invocation
\* is the face formula's value plus stepsPerTick * TC_TICKS_IN_A_CYCLE when the
\* new target has the kind of the previous one, and the formula's value alone
\* when the kinds differ.
C6_MissedCycleInflation ==
    obs.path = "newcycle" =>
        /\ obs.missedCycle = (obs.answer = obs.prevType)
        /\ LET inflation == IF obs.missedCycle
                             THEN stepsPerTick * TC_TICKS_IN_A_CYCLE
                             ELSE 0
           IN  /\ obs.base <= INT32_MAX - inflation
               /\ stepsNeeded = obs.base + inflation

\* The state the first run of Scenario A/B leaves: linear face, one step per
\* tick, target three hours away, 900 steps taken and needed.
ScenarioBStart ==
    /\ faceType = tcLinear
    /\ motorType = tcOne
    /\ obs.path = "newcycle"
    /\ nextTide.time - now = 10800
    /\ stepsTaken = 900
    /\ stepsNeeded = 900

\* C7 as stated (Scenario B): the un-throttled run() made 12 s later computes
\* stepsNeeded = 901 and issues one pulse in that same invocation, ending with
\* stepsTaken = 901.
C7_ScenarioB_Original ==
    [][ ( /\ ScenarioBStart
          /\ obs'.op = "run"
          /\ obs'.path # "throttled"
          /\ now' = now + 12 )
        => ( stepsNeeded' = 901 /\ obs'.pulse /\ stepsTaken' = 901 ) ]_vars

\* C7 as amended: that invocation computes stepsNeeded = 901 and issues no
\* pulse (stepsTaken stays 900); the next un-throttled run() invocation issues
\* exactly one pulse and ends with stepsTaken = 901.
C7_ScenarioB ==
    [][ /\ ( /\ ScenarioBStart
             /\ obs'.op = "run"
             /\ obs'.path # "throttled"
             /\ now' = now + 12 )
            => ( /\ stepsNeeded' = 901
                 /\ ~obs'.pulse
                 /\ stepType' = stepType
                 /\ stepsTaken' = 900 )
        /\ ( /\ faceType = tcLinear
             /\ motorType = tcOne
             /\ obs.path = "recompute"
             /\ stepsNeeded = 901
             /\ stepsTaken = 900
             /\ obs'.op = "run"
             /\ obs'.path # "throttled" )
            => ( /\ obs'.pulse
                 /\ stepType' # stepType
                 /\ stepsTaken' = 901
                 /\ stepsNeeded' = 901 ) ]_vars

\* The pulse of Scenario B has been issued: 901 steps taken and needed.
C7_Witness ==
    /\ faceType = tcLinear
    /\ motorType = tcOne
    /\ obs.op = "run"
    /\ obs.pulse
    /\ stepsTaken = 901
    /\ stepsNeeded = 901

\* C8: run() invokes the handler only in a call in which now is past the
\* current target's time and at least TC_ASK_TIDE_MILLIS ms have elapsed since
\* the last fetch attempt (if there was one).
C8_AskOnlyPastTarget ==
    [][ obs'.asked =>
            /\ obs'.op = "run"
            /\ now' > nextTide.time
            /\ (sinceAsk = -1 \/ obs'.askGap >= TC_ASK_TIDE_MILLIS) ]_vars

\* The handler has been asked for the tide after a target that has passed.
C8_Witness ==
    /\ obs.asked
    /\ obs.path = "newcycle"
    /\ ~obs.firstPass
    /\ obs.askGap >= TC_ASK_TIDE_MILLIS

\* C9: a run() invocation that replaces the target resets stepsTaken to 0
\* (the first-pass policy then sets it to stepsNeeded); an invocation that does
\* not replace the target leaves stepsTaken unchanged or, when it issues a
\* pulse, incremented by exactly 1.
C9_ResetOnReplace ==
    [][ obs'.op = "run" =>
            IF obs'.path = "newcycle"
            THEN stepsTaken' = IF obs'.firstPass /\ ~paused' THEN stepsNeeded' ELSE 0
            ELSE /\ nextTide' = nextTide
                 /\ stepsTaken' = IF obs'.pulse THEN stepsTaken + 1 ELSE stepsTaken ]_vars

\* A target has been replaced while steps had been taken for the previous
\* one, and stepsTaken is back at 0.
C9_Witness ==
    /\ obs.path = "newcycle"
    /\ ~obs.firstPass
    /\ stepsTaken = 0
    /\ stepsNeeded > 0

\* C10: when the handler answers UNAVAILABLE, run() returns with the target,
\* stepsTaken, stepsNeeded, paused and the polarity unchanged and without a
\* pulse, having recorded both timestamps; and as long as the latest answer is
\* UNAVAILABLE, every run() invocation that passes the motor throttle at least
\* TC_ASK_TIDE_MILLIS ms after the recorded query timestamp asks again.
C10_UnavailableRetry ==
    [][ /\ obs'.path = "unavailable"
            => ( /\ nextTide' = nextTide
                 /\ stepsTaken' = stepsTaken
                 /\ stepsNeeded' = stepsNeeded
                 /\ paused' = paused
                 /\ stepType' = stepType
                 /\ ~obs'.pulse
                 /\ gotTideMillis' = millis'
                 /\ lastMillis' = millis' )
        /\ ( /\ lastAnswer = TC_UNAVAILABLE
             /\ obs'.op = "run"
             /\ obs'.path # "throttled"
             /\ ~U32Less(U32Sub(millis', gotTideMillis), TC_ASK_TIDE_MILLIS) )
            => obs'.asked ]_vars

\* The handler answered UNAVAILABLE, was asked again and answered UNAVAILABLE
\* again: the clock still has no target.
C10_Witness ==
    /\ obs.path = "unavailable"
    /\ obs.askGap >= TC_ASK_TIDE_MILLIS
    /\ nextTide.tideType = TC_UNAVAILABLE

\* C11: as long as no target has ever been fetched (the handler has never
\* answered with a tide, so the target's kind is still TC_UNAVAILABLE), no run()
\* invocation issues a pulse or changes the step counts.
C11_StandsStill ==
    (obs.op = "run" /\ nextTide.tideType = TC_UNAVAILABLE)
        => ( /\ ~obs.pulse
             /\ obs.levels = << >>
             /\ stepsTaken = 0
             /\ stepsNeeded = 0 )

\* The handler has answered UNAVAILABLE and a later run(), made after test()
\* has pulsed the motor, still stands still.
C11_Witness ==
    /\ obs.op = "run"
    /\ obs.path = "deferred"
    /\ lastAnswer = TC_UNAVAILABLE
    /\ nextTide.tideType = TC_UNAVAILABLE
    /\ lastLine # "none"
    /\ ~obs.pulse

\* C12 (linear face): whenever run() computes stepsNeeded for a target no
\* farther away than six hours and not as a missed cycle, stepsNeeded is
\* stepsPerTick * floor(secFromCycleEnd / 12) with secFromCycleEnd = 21600 s
\* less the time to the target; that is stepsPerTick * 1800 at the time of the
\* target; and in Scenario A (one step per tick, first target three hours
\* away) the first run ends with stepsNeeded = stepsTaken = 900 and no pulse.
C12_LinearFormula ==
    ( /\ faceType = tcLinear
      /\ obs.path \in {"newcycle", "recompute"}
      /\ ~obs.missedCycle
      /\ obs.secTo >= 0
      /\ obs.secTo <= TC_SECONDS_IN_SIX_HOURS )
        => ( /\ stepsNeeded =
                  stepsPerTick * ((TC_SECONDS_IN_SIX_HOURS - obs.secTo) \div 12)
             /\ obs.secTo = 0 => stepsNeeded = stepsPerTick * 1800
             /\ ( /\ motorType = tcOne
                  /\ obs.path = "newcycle"
                  /\ obs.firstPass
                  /\ obs.secTo = 10800 )
                    => ( stepsNeeded = 900 /\ stepsTaken = 900 /\ ~obs.pulse ) )

\* Scenario A has happened.
C12_Witness ==
    /\ faceType = tcLinear
    /\ motorType = tcOne
    /\ obs.path = "newcycle"
    /\ obs.firstPass
    /\ ~obs.missedCycle
    /\ obs.secTo = 10800
    /\ stepsNeeded = 900
    /\ lastLine = "none"

\* C13 (nonlinear face): whenever run() evaluates the formula for
\* s = 64800 - (time to the target) in 0 .. 64800, its value (stepsNeeded
\* before any missed-cycle compensation) is stepsPerTick *
\* floor(1800 * s^2 / 64800^2); it lies in 0 .. stepsPerTick * 1800 (nothing
\* overflows), is 0 at s = 0 and stepsPerTick * 1800 at s = 64800, and is not
\* below the value the formula has one second earlier.
\* (1800 * s^2 / 64800^2 = s^2 / (1080 * 2160); with s = 1080 a + b the floor
\* is taken without leaving 32 bits.)
C13_NonlinearFormula ==
    ( /\ faceType = tcNonlinear
      /\ obs.path \in {"newcycle", "recompute"}
      /\ obs.secTo >= 0
      /\ obs.secTo <= TC_SECONDS_IN_18_HOURS )
        => LET s == TC_SECONDS_IN_18_HOURS - obs.secTo
               a == s \div 1080
               b == s % 1080
               exact == (1080 * a * a + 2 * a * b + ((b * b) \div 1080)) \div 2160
           IN  /\ obs.base = stepsPerTick * exact
               /\ obs.base >= 0
               /\ obs.base <= stepsPerTick * 1800
               /\ s = 0 => obs.base = 0
               /\ s = TC_SECONDS_IN_18_HOURS => obs.base = stepsPerTick * 1800
               /\ s > 0 =>
                    \A x \in Ticks(tcNonlinear,
                                   SecFromCycleEnd(tcNonlinear, obs.secTo + 1)) :
                        StepsFor(x) <= obs.base

\* The formula has been evaluated at the time of the target (s = 64800) for
\* the motor with sixteen steps per tick.
C13_Witness ==
    /\ faceType = tcNonlinear
    /\ motorType = tcSixteen
    /\ obs.path = "recompute"
    /\ obs.secTo = 0
    /\ obs.base = 16 * 1800
    /\ stepsNeeded = obs.base

\* The state Scenario C is in while secFromCycleEnd is 0: nonlinear face, the
\* target exactly 18 hours away, no steps needed or taken, not paused.
ScenarioCState ==
    /\ faceType = tcNonlinear
    /\ nextTide.time - now = TC_SECONDS_IN_18_HOURS
    /\ stepsNeeded = 0
    /\ stepsTaken = 0
    /\ ~paused

\* C14 (Scenario C): on the nonlinear face, the run() invocation that acquires
\* a target exactly 18 hours away (not as a missed cycle) ends with
\* stepsNeeded = 0, not paused and without a pulse; and from then on no run()
\* invocation issues a pulse, and the state stays as it is, as long as
\* secFromCycleEnd is still 0.
C14_ScenarioC ==
    [][ /\ ( /\ obs'.path = "newcycle"
             /\ faceType = tcNonlinear
             /\ ~obs'.missedCycle
             /\ obs'.secTo = TC_SECONDS_IN_18_HOURS )
            => ( /\ ScenarioCState'
                 /\ stepType' = stepType
                 /\ ~obs'.pulse )
        /\ ( ScenarioCState /\ obs'.op = "run" )
            => ( /\ ~obs'.pulse
                 /\ stepType' = stepType
                 /\ stepsTaken' = 0
                 /\ now' = now => ScenarioCState' ) ]_vars

\* After the acquisition of Scenario C a later run(), made while
\* secFromCycleEnd is still 0, has computed stepsNeeded = 0 again.
C14_Witness ==
    /\ ScenarioCState
    /\ obs.path = "recompute"
    /\ obs.secTo = TC_SECONDS_IN_18_HOURS
    /\ lastAnswer # TC_UNAVAILABLE
    /\ ~obs.pulse

\* C15: test() issues exactly one pulse and returns true when at least
\* minStepInterval ms have elapsed since the last run()/test() invocation that
\* passed the motor throttle (since begin() when there has been none), and
\* otherwise issues no pulse and returns false; it returns true exactly when
\* it pulsed; and the step counts play no part: they are left as they are.
C15_TestPulse ==
    [][ obs'.op = "test" =>
            /\ obs'.pulse = (obs'.passGap >= minStepInterval)
            /\ obs'.ret = obs'.pulse
            /\ Len(obs'.levels) = IF obs'.pulse THEN 2 ELSE 0
            /\ stepType' = (IF obs'.pulse THEN ~stepType ELSE stepType)
            /\ stepsTaken' = stepsTaken
            /\ stepsNeeded' = stepsNeeded ]_vars

\* test() has pulsed and returned true although the clock has a target and
\* all the steps needed had been taken.
C15_Witness ==
    /\ obs.op = "test"
    /\ obs.ret
    /\ obs.pulse
    /\ obs.passGap >= minStepInterval
    /\ nextTide.tideType # TC_UNAVAILABLE
    /\ stepsTaken = stepsNeeded
    /\ stepsNeeded > 0

\* C16: after test() the target is invalid and run() behaves as on a clock
\* that never had a target: a run() invocation made while the target is
\* invalid (its time is 0) issues no pulse from the step counts of the old
\* target, and the next target fetched is handled as the very first one: not
\* classified as a missed cycle, stepsTaken set to the formula's stepsNeeded.
C16_TestInvalidates ==
    /\ (obs.op = "run" /\ obs.pulse) => nextTide.time # 0
    /\ (obs.path = "newcycle" /\ obs.firstPass)
           => ( /\ ~obs.missedCycle
                /\ stepsNeeded = obs.base
                /\ stepsTaken = stepsNeeded )

\* C17: successive pulses, whether issued by run() or by test(), alternate
\* between the two lines, the first pulse being on the tick line; a pulse
\* drives exactly its line HIGH and returns it LOW; the two lines are never
\* HIGH together, and both are LOW whenever no pulse is in progress.
C17_AlternatingLines ==
    /\ pins = << LOW, LOW >>
    /\ \A i \in 1 .. Len(obs.levels) : obs.levels[i] # << HIGH, HIGH >>
    /\ ~obs.pulse => obs.levels = << >>
    /\ obs.pulse =>
           /\ obs.line \in {"tick", "tock"}
           /\ obs.line # obs.prevLine
           /\ obs.prevLine = "none" => obs.line = "tick"
           /\ lastLine = obs.line
           /\ obs.levels = << IF obs.line = "tick" THEN << HIGH, LOW >>
                                                   ELSE << LOW, HIGH >>,
                              << LOW, LOW >> >>

\* run() has pulsed the tock line, the pulse before it having been on the
\* tick line.
C17_Witness ==
    /\ obs.op = "run"
    /\ obs.pulse
    /\ obs.line = "tock"
    /\ obs.prevLine = "tick"
    /\ obs.levels[1] = << LOW, HIGH >>

\* C18: every run() invocation issues at most one pulse; and a run()
\* invocation made less than minStepInterval ms after the throttle timestamp
\* (the time of begin() or of the latest invocation that passed the throttle)
\* does nothing: no pulse, no call of the handler, and the target, stepsTaken,
\* stepsNeeded, paused, the polarity and both timestamps are unchanged.
C18_ThrottledNoOp ==
    [][ obs'.op = "run" =>
            /\ Len(obs'.levels) <= 2
            /\ Len(obs'.levels) = (IF obs'.pulse THEN 2 ELSE 0)
            /\ ( \/ obs'.passGap < minStepInterval
                 \/ U32Less(U32Sub(millis', lastMillis), minStepInterval) )
                => ( /\ ~obs'.pulse
                     /\ ~obs'.asked
                     /\ pins' = pins
                     /\ UNCHANGED << nextTide, stepsTaken, stepsNeeded, paused,
                                     stepType, gotTideMillis, lastMillis >> ) ]_vars

\* A run() has been throttled while steps were outstanding and the target
\* had passed: it neither stepped nor asked.
C18_Witness ==
    /\ obs.op = "run"
    /\ obs.path = "throttled"
    /\ obs.passGap < minStepInterval
    /\ stepsNeeded > stepsTaken
    /\ now > nextTide.time

\* C19: setLevel(level) ignores a level outside the displayable range: with
\* level > maxLevel or level < minLevel, curLevel and the stepper's target are
\* left as they are; otherwise curLevel becomes level and the stepper's target
\* becomes level x stepsPerFoot (as a whole number of steps).
C19_SetLevelRange ==
    [][ wlObs'.op = "setLevel" =>
            LET level == wlObs'.level
                steps == level * wld.stepsPerFoot
            IN  IF level > wld.maxLevel \/ level < wld.minLevel
                THEN /\ wld'.curLevel = wld.curLevel
                     /\ stepper'.target = stepper.target
                     /\ wld' = wld
                ELSE /\ wld'.curLevel = level
                     /\ stepper'.target = IF steps >= 0 THEN steps \div 100
                                          ELSE -((-steps) \div 100)
                     /\ stepper'.current = stepper.current ]_vars

\* A level below the range has been ignored after 1.5 feet had been set: the
\* level is still 1.5 feet and the target still -148 steps.
C19_Witness ==
    /\ wld.begun
    /\ wlObs.op = "setLevel"
    /\ wlObs.ignored
    /\ wlObs.level < wld.minLevel
    /\ wld.curLevel = 150
    /\ stepper.target = -148

\* C20: when the debounced power state goes from off to on, run() calls
\* home(), and the stepper is not ticked toward a target before a home() has
\* driven it to the limit switch.
C20_HomeBeforeTick ==
    /\ wlObs.cameOn => wlObs.homeCalls >= 1
    /\ wlObs.ticked => ~needsHome

\* C21 (still without power): every run() invocation that ticks the stepper
\* outside homing ends with the debounced power state powerIsOn true and with
\* no debounce in progress (powerUnstable false); an invocation that returns
\* while the power state is being debounced, or that finds powerIsOn false,
\* does not tick.
C21_StillWithoutPower ==
    (wlObs.op = "run" /\ wlObs.ticked) => (wld.powerIsOn /\ ~wld.powerUnstable)

\* A run() that ticked: the stepper is one step off the homed position, on its
\* way to the level set.
C21_Witness ==
    /\ wlObs.op = "run"
    /\ wlObs.ticked
    /\ wld.ready
    /\ stepper.target < stepper.current
    /\ stepper.current = LevelSteps(wld.minLevel, wld.stepsPerFoot) - 1

\* C22 (no stale level): after every getPredWl() call, if the predictions held
\* in predWl[] were fetched for the current UTC day the call returned an entry
\* of them, and otherwise it attempted the fetch and returned LEVEL_UNAVAILABLE;
\* so an entry that was not fetched for the current day is never returned and
\* a failed fetch is retried by the next call.
C22_NoStaleLevel ==
    predObs.op = "getPredWl" =>
        IF predWl = predObs.midnight
        THEN predObs.ret = "entry"
        ELSE predObs.ret = "unavailable" /\ predObs.fetched

\* C24 (signed distance from the cycle's end): in every run() invocation that
\* evaluates the face formula, secFromCycleEnd is the signed number
\* span - secToNextTide (span = 21600 s on the linear face, 64800 s on the
\* nonlinear one), which is negative when the target is farther away than the
\* span; these values are exact in single precision.
C24_SignedFromCycleEnd ==
    (obs.op = "run" /\ obs.path \in {"newcycle", "recompute"}) =>
        obs.fromEnd = [m |-> Span(faceType) - obs.secTo, e |-> 0]

\* C23 (normal rate after the catch-up): whenever run() re-evaluates the face
\* formula for the current target, which it does once the quick steps of the
\* catch-up are done, the hand is not ahead of the formula (stepsTaken <=
\* stepsNeeded), so that each step the formula's value grows by makes one
\* pulse due; and at the target time the formula's value is the end-of-cycle
\* position, stepsPerTick x 1800.  This includes cycles whose target was
\* flagged as a missed cycle.
C23_ResumesAfterCatchUp ==
    (obs.op = "run" /\ obs.path = "recompute") =>
        /\ stepsTaken <= stepsNeeded
        /\ (obs.secTo = 0 => stepsNeeded = stepsPerTick * TC_TICKS_IN_A_CYCLE)

C27_CatchUp ==
    [][ (obs'.op = "run" /\ stepsNeeded > stepsTaken) =>
            IF obs'.path = "throttled"
            THEN /\ ~obs'.pulse
                 /\ stepsTaken' = stepsTaken
                 /\ stepsNeeded' = stepsNeeded
            ELSE /\ obs'.pulse
                 /\ Len(obs'.levels) = 2
                 /\ stepsTaken' = stepsTaken + 1
                 /\ stepsTaken' <= stepsNeeded'
                 /\ stepsNeeded' = stepsNeeded
                 /\ nextTide' = nextTide ]_vars

\* The catch-up of a second target two ticks inside the linear span is over:
\* the two pulses have been issued and stepsTaken = stepsNeeded = 2.
C27_Witness ==
    /\ obs.op = "run"
    /\ obs.path = "step"
    /\ faceType = tcLinear
    /\ stepsNeeded = 2
    /\ stepsTaken = stepsNeeded
    /\ nextTide.time - now > TC_SECONDS_IN_SIX_HOURS - 3 * TC_SECONDS_PER_TICK

\* The values the face formula can have for the current target and the time
\* of the latest invocation, with the inflation of a missed cycle in the
\* invocation that flagged it.
FaceNow ==
    LET f == U32ToFloat(U32Sub(ToU32(Span(faceType)),
                               ToU32(ToInt32(ToU32(nextTide.time - now)))))
        values == { StepsFor(k) : k \in Ticks(faceType, f) }
    IN  IF obs.missedCycle THEN { Inflate(v) : v \in values } ELSE values

\* C28 as stated (recomputed every invocation): after every run() invocation
\* that passes the motor throttle and is not deferred by the target refresh
\* (asked too soon, or answered unavailable), stepsNeeded is the face formula's
\* value for the current target and that invocation's time, also after an
\* invocation that issues a pulse.
C28_RecomputedEveryInvocation ==
    (obs.op = "run" /\ obs.path \in {"step", "newcycle", "recompute"}) =>
        stepsNeeded \in FaceNow

\* C28 (recomputed unless stepping): a run() invocation that fetches a target
\* or finds no step outstanding ends with stepsNeeded equal to the face
\* formula's value for the current target and that invocation's time; every
\* other invocation (throttled, issuing a pulse, or deferred by the target
\* refresh) leaves stepsNeeded as it was.
C28_RecomputedUnlessStepping ==
    /\ []( (obs.op = "run" /\ obs.path \in {"newcycle", "recompute"}) =>
               stepsNeeded \in FaceNow )
    /\ [][ (obs'.op = "run" /\ obs'.path \notin {"newcycle", "recompute"}) =>
               stepsNeeded' = stepsNeeded ]_vars

\* A run() invocation has issued a pulse of a catch-up and left stepsNeeded at
\* the value of the acquisition, 12 s earlier: the formula's value is now one
\* tick larger.
C28_Witness ==
    /\ obs.op = "run"
    /\ obs.path = "step"
    /\ faceType = tcLinear
    /\ motorType = tcOne
    /\ stepsNeeded = 2
    /\ FaceNow = { 3 }

\* C29 (wrap of millis()): with the millisecond counter wrapping between
\* invocations, two pulses are still at least minStepInterval ms apart and two
\* handler calls at least TC_ASK_TIDE_MILLIS ms apart, an invocation is
\* throttled only if less than minStepInterval ms have passed since begin()
\* or the latest un-throttled invocation, and a target refresh is deferred
\* only if less than TC_ASK_TIDE_MILLIS ms have passed since the latest
\* handler call.
C29_WrapTolerated ==
    /\ (obs.op = "run" /\ obs.pulse) =>
           (obs.pulseGap = -1 \/ obs.pulseGap >= minStepInterval)
    /\ (obs.op = "run" /\ obs.asked) =>
           (obs.askGap = -1 \/ obs.askGap >= TC_ASK_TIDE_MILLIS)
    /\ (obs.op = "run" /\ obs.path = "throttled") =>
           (obs.passGap >= 0 /\ obs.passGap < minStepInterval)
    /\ (obs.op = "run" /\ obs.path = "deferred") =>
           (sinceAsk >= 0 /\ sinceAsk < TC_ASK_TIDE_MILLIS)

\* A pulse issued less than minStepInterval ms after the wrap, the pulse
\* before it having been issued before the wrap.
C29_Witness ==
    /\ obs.op = "run"
    /\ obs.pulse
    /\ obs.pulseGap >= minStepInterval
    /\ U32Less(millis, minStepInterval)

\* C30 (home() terminates): every home() call that has been entered returns,
\* whatever the supply does while it runs.
C30_HomeTerminates ==
    (homing.pc \in {"test", "tick", "return"}) ~> (homing.pc = "done")

\* C31 (ready): in every state, ready = true implies that the debounced power
\* state is on; ready does not stay true across a loss of power.
C31_ReadyMeansPowered ==
    wld.ready => wld.powerIsOn

\* C32 (power debounce): powerIsOn adopts a new value only in a run()
\* invocation that finds the power unstable and is at least
\* WLD_ENOUGH_MILLIS after the moment the power was declared unstable.
C32_AdoptsAfterWindow ==
    [][(wld.begun /\ wld'.powerIsOn # wld.powerIsOn)
          => /\ wld.powerUnstable
             /\ ~U32Less(U32Sub(millis', wld.unstableSince), WLD_ENOUGH_MILLIS)]_vars

\* C33 (invalid selectors): a clock that has begun, and so has a motor profile
\* and a face formula in effect, was given one of the two motor selectors and
\* one of the two face selectors; begin() with any other value does not select
\* a profile or a face.
C33_InvalidSelectorRejected ==
    begun => /\ motorType \in {tcOne, tcSixteen}
             /\ faceType \in {tcLinear, tcNonlinear}

\* C34 (begin first): loop() calls tc.run() or tc.test() only on a clock whose
\* begin() setup() has called.
C34_BegunBeforeUse ==
    mainObs.called # "none" => begun

\* C35 (stored target): in every state the stored target, which getNextTide()
\* returns as it is, is either a real event or the no-target value: its time
\* is 0 if and only if its tideType is TC_UNAVAILABLE.
C35_TargetOrNone ==
    (nextTide.time = 0) <=> (nextTide.tideType = TC_UNAVAILABLE)

\* C36 (first fetch): whatever millis() was at begin(), a run() invocation
\* that passes the motor throttle is never the first to do so without the
\* handler having been invoked: the first such invocation invokes it.
C36_FirstFetchNotDeferred ==
    (obs.op = "run" /\ obs.path # "throttled") => lastAnswer # -1

\* The first handler call was made by a run() at a millis() below the query
\* window, where begin()'s subtraction had wrapped.
C36_Witness ==
    /\ obs.op = "run"
    /\ obs.asked
    /\ obs.askGap = -1
    /\ U32Less(millis, TC_ASK_TIDE_MILLIS)

\* The indices of the predictions of the latest call that lie strictly after
\* the time of the call.
LaterPredictions ==
    { i \in 1 .. Len(tideObs.payload.list) :
        fromNOAAformat(tideObs.payload.list[i].t) > tideObs.nowSecs }

\* C37 (handler): getNextTide() returns either {TC_UNAVAILABLE, 0} or the first
\* listed prediction whose time is strictly later than the time of the call;
\* it never returns an available event whose time is at or before that time,
\* and it returns {TC_UNAVAILABLE, 0} when there is no payload, when it cannot
\* be parsed, and when it lists no prediction or only past ones.
C37_NextTideOrNone ==
    tideObs.calls > 0 =>
        /\ \/ tideObs.answer = [tideType |-> TC_UNAVAILABLE, time |-> 0]
           \/ /\ LaterPredictions # {}
              /\ \E i \in LaterPredictions :
                    /\ \A j \in LaterPredictions : i <= j
                    /\ tideObs.answer.time = fromNOAAformat(tideObs.payload.list[i].t)
                    /\ tideObs.answer.tideType =
                          (IF tideObs.payload.list[i].type = "H" THEN HIGH ELSE LOW)
        /\ tideObs.answer.tideType # TC_UNAVAILABLE
               => tideObs.answer.time > tideObs.nowSecs
        /\ (tideObs.payload.kind # "json" \/ LaterPredictions = {})
               => tideObs.answer = [tideType |-> TC_UNAVAILABLE, time |-> 0]

\* A call made at the very minute of the first listed prediction passed it
\* over and returned the second one.
C37_Witness ==
    /\ tideObs.calls > 0
    /\ Len(tideObs.payload.list) >= 2
    /\ fromNOAAformat(tideObs.payload.list[1].t) = tideObs.nowSecs
    /\ tideObs.answer.tideType # TC_UNAVAILABLE
    /\ tideObs.answer.time = fromNOAAformat(tideObs.payload.list[2].t)

====
